---- MODULE Spec2Model ----
(***************************************************************************)
(* FYSC23 powder XRD analysis (main.py, src/data_cleaner.py,               *)
(* src/powderxrd_patch.py) as a state machine.                             *)
(*                                                                         *)
(* Representation                                                          *)
(*   - a string the code inspects character by character (a file name, a   *)
(*     structure name) is a sequence of one-character strings;             *)
(*   - a data file is a sequence of rows, a row a sequence of fields, and  *)
(*     a field is what float() makes of its text: <<v>> for the number v,  *)
(*     <<>> for text that is no number;                                    *)
(*   - angles are whole degrees; intensities are whole multiples of        *)
(*     1/IntensityUnit;                                                    *)
(*   - sin^2(theta) is kept exactly, as the integer 4*sin^2(theta), on the *)
(*     angles where it is rational (2*theta a multiple of 60 or 90);       *)
(*   - a float the regression returns is an exact fraction [num, den]      *)
(*     with den > 0, and NaN is [num |-> 0, den |-> 0].                    *)
(***************************************************************************)
EXTENDS Integers, Sequences, FiniteSets, TLC

VARIABLES
    args,            \* argparse namespace: datafile, clean, size
    given,           \* history: the datafile as given on the command line
    fs,              \* the datafile's directory: file name -> content
    written,         \* history: file name -> raw file it was written from in this run
    raw_files,       \* clean_all_raw_data: the glob result still to be cleaned
    sample_num,      \* main's local sample_num; <<>> while it is unbound
    two_theta,       \* loaded scan, column 0
    intensity,       \* loaded scan, column 1
    peak_angles,     \* main's peak_angles
    sin2_theta,      \* main's sin2_theta (times 4)
    structure,       \* the hypothesis being fitted / the argument of the last lookup
    reflections,     \* result of the last get_allowed_reflections call
    results,         \* main's results dict
    best_structure,  \* main's best_structure; <<>> before selection
    stdout,          \* the lattice-constant lines printed so far
    figs,            \* figure files written under figs/
    size_calls,      \* calls made to the size-calculation routines
    pc,              \* position in main
    err,             \* the exception that ended the run; "" if none
    log              \* history: the steps taken, in order

vars == <<args, given, fs, written, raw_files, sample_num, two_theta, intensity,
          peak_angles, sin2_theta, structure, reflections, results,
          best_structure, stdout, figs, size_calls, pc, err, log>>

-----------------------------------------------------------------------------
(* Bounds of the model *)

MaxScanLen == 6
MaxPeaks == 6
MaxNameLen == 3
MaxRows == 7
MaxLoadRows == 2
MaxCalls == 2
IntensityUnit == 2

-----------------------------------------------------------------------------
(* Generic helpers *)

Min2(a, b) == IF a <= b THEN a ELSE b

Max2(a, b) == IF a >= b THEN a ELSE b

Abs(a) == IF a < 0 THEN 0 - a ELSE a

Range(s) == {s[i] : i \in DOMAIN s}

RECURSIVE SeqSum(_)
SeqSum(s) == IF s = <<>> THEN 0 ELSE Head(s) + SeqSum(Tail(s))

RECURSIVE SeqMax(_)
SeqMax(s) == IF Len(s) = 1 THEN s[1] ELSE Max2(Head(s), SeqMax(Tail(s)))

RECURSIVE SeqMin(_)
SeqMin(s) == IF Len(s) = 1 THEN s[1] ELSE Min2(Head(s), SeqMin(Tail(s)))

\* Insert v into the ascending sequence s, after its equals.
RECURSIVE Insert(_, _)
Insert(v, s) ==
    IF s = <<>> THEN <<v>>
    ELSE IF v < Head(s) THEN <<v>> \o s
    ELSE <<Head(s)>> \o Insert(v, Tail(s))

\* np.sort
RECURSIVE NpSort(_)
NpSort(s) == IF s = <<>> THEN <<>> ELSE Insert(Head(s), NpSort(Tail(s)))

\* np.median of an odd number of values
Median(s) == NpSort(s)[(Len(s) + 1) \div 2]

\* All sequences over S of length at most n
SeqsUpTo(S, n) == UNION {[1..k -> S] : k \in 0..n}

-----------------------------------------------------------------------------
(* Strings *)

UpperAlpha == <<"A","B","C","D","E","F","G","H","I","J","K","L","M",
                "N","O","P","Q","R","S","T","U","V","W","X","Y","Z">>

LowerAlpha == <<"a","b","c","d","e","f","g","h","i","j","k","l","m",
                "n","o","p","q","r","s","t","u","v","w","x","y","z">>

Digits == {"0","1","2","3","4","5","6","7","8","9"}

LowerChar(c) ==
    IF \E i \in DOMAIN UpperAlpha : UpperAlpha[i] = c
    THEN LowerAlpha[CHOOSE i \in DOMAIN UpperAlpha : UpperAlpha[i] = c]
    ELSE c

\* str.lower()
Lower(s) == [i \in DOMAIN s |-> LowerChar(s[i])]

StartsWith(s, p) == Len(s) >= Len(p) /\ SubSeq(s, 1, Len(p)) = p

EndsWith(s, p) == Len(s) >= Len(p) /\ SubSeq(s, Len(s) - Len(p) + 1, Len(s)) = p

-----------------------------------------------------------------------------
(* File names: os.path.basename, re.search(r'Sample(\d+)', ..., re.IGNORECASE), *)
(* glob "Sample*.txt"                                                        *)

Sample1Txt == <<"S","a","m","p","l","e","1",".","t","x","t">>

Sample1bTxt == <<"S","a","m","p","l","e","1","b",".","t","x","t">>

SampleATxt == <<"S","a","m","p","l","e","A",".","t","x","t">>

FilteredSample1Xy == <<"f","i","l","t","e","r","e","d","_","s","a","m","p","l","e","1",".","x","y">>

DataTxt == <<"d","a","t","a",".","t","x","t">>

\* Whether 'Sample(\d+)' matches at position i of base, ignoring case.
MatchAt(base, i) ==
    /\ i + 6 <= Len(base)
    /\ Lower(SubSeq(base, i, i + 5)) = <<"s","a","m","p","l","e">>
    /\ base[i + 6] \in Digits

\* re.search(r'Sample(\d+)', base, re.IGNORECASE): group(1) of the leftmost
\* match, the longest run of digits there; <<>> when there is no match.
ReSearchSample(base) ==
    IF \E i \in 1..Len(base) : MatchAt(base, i)
    THEN LET i0 == CHOOSE i \in 1..Len(base) :
                       MatchAt(base, i) /\ \A k \in 1..(i - 1) : ~MatchAt(base, k)
             j0 == CHOOSE j \in (i0 + 6)..Len(base) :
                       /\ \A k \in (i0 + 6)..j : base[k] \in Digits
                       /\ (j = Len(base) \/ base[j + 1] \notin Digits)
         IN  SubSeq(base, i0 + 6, j0)
    ELSE <<>>

\* f"filtered_sample{sample_num}.xy"
FilteredFilename(num) ==
    <<"f","i","l","t","e","r","e","d","_","s","a","m","p","l","e">> \o num \o <<".","x","y">>

Unknown == <<"u","n","k","n","o","w","n">>

\* glob.glob(os.path.join(directory, "Sample*.txt")) on the names of the directory
GlobSampleTxt(names) ==
    {n \in names : /\ Len(n) >= 10
                   /\ StartsWith(n, <<"S","a","m","p","l","e">>)
                   /\ EndsWith(n, <<".","t","x","t">>)}

-----------------------------------------------------------------------------
(* Data files *)

IsNumber(field) == Len(field) = 1

Rectangular(table) == \A i, j \in DOMAIN table : Len(table[i]) = Len(table[j])

AllNumeric(table) == \A i \in DOMAIN table : \A j \in DOMAIN table[i] : IsNumber(table[i][j])

\* The file a two-column data set is written as (DataFrame.to_csv, sep='\t')
ToCsv(rows) == [i \in DOMAIN rows |-> <<<<rows[i][1]>>, <<rows[i][2]>>>>]

\* load_data: np.loadtxt(filename, delimiter='\t'), then data[:, 0] and data[:, 1].
\* loadtxt raises ValueError on text that is no number and on rows of unequal
\* length, and returns an array of fewer than two dimensions for a file of no row,
\* one row or one column, which data[:, 0] cannot index.
load_data(table) ==
    IF ~AllNumeric(table) \/ ~Rectangular(table)
    THEN [err |-> "ValueError", two_theta |-> <<>>, intensity |-> <<>>]
    ELSE IF Len(table) < 2 \/ Len(table[1]) < 2
    THEN [err |-> "IndexError", two_theta |-> <<>>, intensity |-> <<>>]
    ELSE [err |-> "",
          two_theta |-> [i \in DOMAIN table |-> table[i][1][1]],
          intensity |-> [i \in DOMAIN table |-> table[i][2][1]]]

-----------------------------------------------------------------------------
(* data_cleaner.clean_data *)

AngleCutoff == 10

WindowSize == 5

ThresholdMultiplier == 3

EpsilonInv == 1000000

\* pd.read_csv(raw_file, sep="\t", header=None), columns 0 and 1 of a numeric file
ReadCsv(table) == [i \in DOMAIN table |-> <<table[i][1][1], table[i][2][1]>>]

\* df[df[0] > 10]
AngleFilter(rows) == SelectSeq(rows, LAMBDA r : r[1] > AngleCutoff)

\* Whether rolling(window=5, center=True) has a full window at row k of n rows;
\* where it has none the rolling statistic is NaN.
HasWindow(n, k) ==
    LET half == (WindowSize - 1) \div 2 IN k - half >= 1 /\ k + half <= n

\* The intensities of the window centred at row k
WindowAt(rows, k) ==
    LET half == (WindowSize - 1) \div 2 IN [i \in 1..WindowSize |-> rows[k - half + i - 1][2]]

RollingMedian(rows, k) == Median(WindowAt(rows, k))

\* np.median(np.abs(x - np.median(x)))
RollingMad(rows, k) ==
    LET w == WindowAt(rows, k)
        m == Median(w)
    IN  Median([i \in DOMAIN w |-> Abs(w[i] - m)])

\* df["difference"] <= threshold_multiplier * (df["rolling_mad"] + epsilon);
\* a comparison with NaN is False. Intensities are in units of 1/IntensityUnit.
KeepRow(rows, k) ==
    /\ HasWindow(Len(rows), k)
    /\ Abs(rows[k][2] - RollingMedian(rows, k)) * EpsilonInv
           <= ThresholdMultiplier * (RollingMad(rows, k) * EpsilonInv + IntensityUnit)

RECURSIVE KeepFrom(_, _)
KeepFrom(rows, k) ==
    IF k > Len(rows) THEN <<>>
    ELSE (IF KeepRow(rows, k) THEN <<rows[k]>> ELSE <<>>) \o KeepFrom(rows, k + 1)

\* The rows clean_data writes for the rows it read
CleanRows(rows) == LET df == AngleFilter(rows) IN KeepFrom(df, 1)

\* The name clean_data writes to
CleanTarget(raw_file) ==
    LET num == ReSearchSample(raw_file)
    IN  FilteredFilename(IF num = <<>> THEN Unknown ELSE num)

-----------------------------------------------------------------------------
(* detect_peaks: scipy.signal.find_peaks(intensity, height=..., prominence=...) *)

HeightFracInv == 1000

Prominence == 1

\* First index from i on that is the last one or holds a value other than v
RECURSIVE PlateauAhead(_, _, _)
PlateauAhead(x, i, v) ==
    IF i < Len(x) /\ x[i] = v THEN PlateauAhead(x, i + 1, v) ELSE i

\* The scan of find_peaks for local maxima: a sample, or a flat run of samples,
\* that rises from its left neighbour and falls to its right one is reported
\* once, at the middle of the run (rounded down). The first and the last
\* sample are never reported.
RECURSIVE LocalMaximaFrom(_, _)
LocalMaximaFrom(x, i) ==
    IF i >= Len(x) THEN <<>>
    ELSE IF x[i - 1] < x[i]
         THEN LET ahead == PlateauAhead(x, i + 1, x[i])
              IN  IF x[ahead] < x[i]
                  THEN <<(i + ahead - 1) \div 2>> \o LocalMaximaFrom(x, ahead + 1)
                  ELSE LocalMaximaFrom(x, i + 1)
         ELSE LocalMaximaFrom(x, i + 1)

LocalMaxima(x) == IF Len(x) < 3 THEN <<>> ELSE LocalMaximaFrom(x, 2)

\* Lowest value met walking from i in direction d (-1 or 1) while the values
\* do not exceed x[p] and the trace lasts
RECURSIVE WalkMin(_, _, _, _, _)
WalkMin(x, p, i, d, low) ==
    IF i >= 1 /\ i <= Len(x) /\ x[i] <= x[p]
    THEN WalkMin(x, p, i + d, d, Min2(low, x[i]))
    ELSE low

\* peak_prominences: the peak's height above the higher of its two bases
PeakProminence(x, p) ==
    x[p] - Max2(WalkMin(x, p, p, 0 - 1, x[p]), WalkMin(x, p, p, 1, x[p]))

\* height >= np.max(intensity) * height_frac
HeightOk(x, p) == x[p] * HeightFracInv >= SeqMax(x)

\* Mutant: a peak of prominence exactly 1 is rejected
ProminenceStrict(x, p) == PeakProminence(x, p) > Prominence * IntensityUnit

\* prominence >= 1, the intensities being in units of 1/IntensityUnit
ProminenceOk(x, p) == PeakProminence(x, p) >= Prominence * IntensityUnit

\* find_peaks: the indices kept, ascending
FindPeaks(x) ==
    SelectSeq(LocalMaxima(x), LAMBDA p : HeightOk(x, p) /\ ProminenceOk(x, p))

\* detect_peaks(two_theta, intensity); np.max of an empty array raises ValueError
detect_peaks(tt, x) ==
    IF Len(x) = 0
    THEN [err |-> "ValueError", peak_angles |-> <<>>, peak_intensities |-> <<>>]
    ELSE LET peaks == FindPeaks(x)
         IN  [err |-> "",
              peak_angles |-> [k \in DOMAIN peaks |-> tt[peaks[k]]],
              peak_intensities |-> [k \in DOMAIN peaks |-> x[peaks[k]]]]

-----------------------------------------------------------------------------
(* get_allowed_reflections *)

fcc == <<"f","c","c">>

bcc == <<"b","c","c">>

Structures == <<fcc, bcc>>

\* Mutant: (222) entered with the Q of (400)
FccReflectionsTypo ==
    << <<3, "(111)">>, <<4, "(200)">>, <<8, "(220)">>, <<11, "(311)">>, <<16, "(222)">> >>

FccReflections ==
    << <<3, "(111)">>, <<4, "(200)">>, <<8, "(220)">>, <<11, "(311)">>, <<12, "(222)">> >>

BccReflections ==
    << <<2, "(110)">>, <<4, "(200)">>, <<6, "(211)">>, <<8, "(220)">>, <<10, "(310)">> >>

get_allowed_reflections(s) ==
    IF Lower(s) = fcc THEN [err |-> "", reflections |-> FccReflections]
    ELSE IF Lower(s) = bcc THEN [err |-> "", reflections |-> BccReflections]
    ELSE [err |-> "ValueError", reflections |-> <<>>]

-----------------------------------------------------------------------------
(* sin^2(theta) and perform_regression *)

\* 4 * np.sin(np.deg2rad(angle / 2.0))**2 = 2 - 2*cos(angle)
Sin2x4(angle) ==
    LET m == angle % 360
    IN  CASE m = 0 -> 0
          [] m = 60 -> 1
          [] m = 90 -> 2
          [] m = 120 -> 3
          [] m = 180 -> 4
          [] m = 240 -> 3
          [] m = 270 -> 2
          [] m = 300 -> 1

NaN == [num |-> 0, den |-> 0]

IsNaN(q) == q.den = 0

\* The fraction num/den with a positive denominator
Frac(num, den) == IF den < 0 THEN [num |-> 0 - num, den |-> 0 - den] ELSE [num |-> num, den |-> den]

FracLess(p, q) == p.num * q.den < q.num * p.den

\* n * sum(x*y) - sum(x) * sum(y): n^2 times the covariance np.cov(x, y, bias=1)
Cov(x, y) == Len(x) * SeqSum([i \in DOMAIN x |-> x[i] * y[i]]) - SeqSum(x) * SeqSum(y)

\* n_reflections = min(len(reflections), len(sin2_theta))
NReflections(refl, sin2) == Min2(Len(refl), Len(sin2))

\* Q_theoretical
QTheoretical(refl, n) == [i \in 1..n |-> refl[i][1]]

\* Mutant: the last n values, sin2_theta[-n_reflections:]
Sin2UsedTail(sin2, n) == SubSeq(sin2, Len(sin2) - n + 1, Len(sin2))

\* sin2_theta[:n_reflections]
Sin2Used(sin2, n) == SubSeq(sin2, 1, n)

\* regression.slope: ssxym / ssxm, NaN for 0/0; y is 4 * sin^2(theta)
Slope(x, y) == IF Cov(x, x) = 0 THEN NaN ELSE Frac(Cov(x, y), 4 * Cov(x, x))

\* regression.intercept: ymean - slope * xmean
Intercept(x, y) ==
    IF Cov(x, x) = 0 THEN NaN
    ELSE Frac(SeqSum(y) * Cov(x, x) - Cov(x, y) * SeqSum(x), 4 * Len(x) * Cov(x, x))

\* regression.rvalue**2; linregress sets r = 0.0 when ssxm or ssym is 0
RSquared(x, y) ==
    IF Cov(x, x) = 0 \/ Cov(y, y) = 0 THEN Frac(0, 1)
    ELSE Frac(Cov(x, y) * Cov(x, y), Cov(x, x) * Cov(y, y))

\* a = wavelength / (2 * np.sqrt(slope)): np.sqrt of a negative number or of NaN
\* is NaN, and division by 0.0 gives inf; neither raises. A finite a is kept as
\* the slope it was computed from.
LatticeConstant(slope) ==
    IF IsNaN(slope) \/ slope.num < 0 THEN [kind |-> "nan", slope |-> slope]
    ELSE IF slope.num = 0 THEN [kind |-> "inf", slope |-> slope]
    ELSE [kind |-> "finite", slope |-> slope]

\* perform_regression(sin2_theta, reflections, wavelength); linregress raises
\* ValueError on empty input and on x values that are all identical
perform_regression(sin2, refl) ==
    LET n == NReflections(refl, sin2)
        Q == QTheoretical(refl, n)
        used == Sin2Used(sin2, n)
    IN  IF n = 0 \/ (n > 1 /\ SeqMax(Q) = SeqMin(Q))
        THEN [err |-> "ValueError"]
        ELSE [err |-> "",
              slope |-> Slope(Q, used),
              intercept |-> Intercept(Q, used),
              r_squared |-> RSquared(Q, used),
              a |-> LatticeConstant(Slope(Q, used)),
              Q_theoretical |-> Q,
              sin2_used |-> used]

\* results[structure] = {...}: a dict keeps its keys in insertion order
DictSet(d, key, value) ==
    IF \E i \in DOMAIN d : d[i].key = key
    THEN [i \in DOMAIN d |-> IF d[i].key = key THEN [key |-> key, value |-> value] ELSE d[i]]
    ELSE Append(d, [key |-> key, value |-> value])

DictKeys(d) == [i \in DOMAIN d |-> d[i].key]

DictGet(d, key) == d[CHOOSE i \in DOMAIN d : d[i].key = key].value

HasKey(d, key) == \E i \in DOMAIN d : d[i].key = key

\* Mutant: the last of the largest wins
MaxReplacesOrEqual(b, c) == ~FracLess(c, b)

\* Whether max() replaces its current best, keyed b, by a later item keyed c
MaxReplaces(b, c) == FracLess(b, c)

\* max(results, key=lambda s: results[s]['r_squared']): the first of the largest
RECURSIVE MaxFrom(_, _, _)
MaxFrom(d, i, best) ==
    IF i > Len(d) THEN best
    ELSE IF MaxReplaces(DictGet(d, best).r_squared, d[i].value.r_squared)
         THEN MaxFrom(d, i + 1, d[i].key)
         ELSE MaxFrom(d, i + 1, best)

MaxByRSquared(d) == MaxFrom(d, 2, d[1].key)

-----------------------------------------------------------------------------
(* main, step by step *)

\* An exception leaves main: the run ends there.
Raise(e) == pc' = "error" /\ err' = e

Step(name) == log' = Append(log, name)

\* if args.clean:
CleanRequested == args.clean

\* Mutant: the size calculation runs whatever the flag
SizeAlways == TRUE

\* if args.size:
SizeRequested == args.size

\* clean_all_raw_data(args.datafile): the glob. The order glob returns the
\* files in is that of the directory listing, which is arbitrary: the set is
\* cleaned in any order.
CleanAllRawData ==
    /\ pc = "start"
    /\ CleanRequested
    /\ raw_files' = GlobSampleTxt(DOMAIN fs)
    /\ pc' = "cleaning"
    /\ Step("clean_all_raw_data")
    /\ UNCHANGED <<args, given, fs, written, sample_num, two_theta, intensity, peak_angles,
                   sin2_theta, structure, reflections, results, best_structure,
                   stdout, figs, size_calls, err>>

\* Whether pandas can read the file as a numeric table with columns 0 and 1
Cleanable(table) ==
    /\ Len(table) >= 1
    /\ Rectangular(table)
    /\ AllNumeric(table)
    /\ Len(table[1]) >= 2

\* clean_data(rf) for one file of the glob
CleanData ==
    /\ pc = "cleaning"
    /\ \E rf \in raw_files :
         /\ raw_files' = raw_files \ {rf}
         /\ IF Cleanable(fs[rf])
            THEN LET target == CleanTarget(rf)
                     out == ToCsv(CleanRows(ReadCsv(fs[rf])))
                 IN  /\ fs' = [n \in DOMAIN fs \cup {target} |->
                                  IF n = target THEN out ELSE fs[n]]
                     /\ written' = [n \in DOMAIN written \cup {target} |->
                                       IF n = target THEN rf ELSE written[n]]
                     /\ UNCHANGED <<pc, err>>
            ELSE /\ Raise("ParserError")
                 /\ UNCHANGED <<fs, written>>
    /\ Step("clean_data")
    /\ UNCHANGED <<args, given, sample_num, two_theta, intensity, peak_angles, sin2_theta,
                   structure, reflections, results, best_structure, stdout, figs,
                   size_calls>>

\* main, lines 132-141: the filtered file replaces args.datafile
ResolveFiltered ==
    /\ pc = "cleaning"
    /\ raw_files = {}
    /\ LET num == ReSearchSample(args.datafile)
       IN  IF num # <<>>
           THEN /\ sample_num' = num
                /\ args' = [args EXCEPT !.datafile = FilteredFilename(num)]
           ELSE UNCHANGED <<sample_num, args>>
    /\ pc' = "load"
    /\ Step("resolve")
    /\ UNCHANGED <<given, fs, written, raw_files, two_theta, intensity, peak_angles,
                   sin2_theta, structure, reflections, results, best_structure,
                   stdout, figs, size_calls, err>>

\* Where main loads the scan: at once without --clean, after the cleaning with it
AtLoad == pc = "load" \/ (pc = "start" /\ ~CleanRequested)

\* two_theta, intensity = load_data(args.datafile)
LoadData ==
    /\ AtLoad
    /\ IF args.datafile \notin DOMAIN fs
       THEN /\ Raise("FileNotFoundError")
            /\ UNCHANGED <<two_theta, intensity>>
       ELSE LET r == load_data(fs[args.datafile])
            IN  IF r.err # ""
                THEN /\ Raise(r.err)
                     /\ UNCHANGED <<two_theta, intensity>>
                ELSE /\ two_theta' = r.two_theta
                     /\ intensity' = r.intensity
                     /\ pc' = "detect"
                     /\ UNCHANGED err
    /\ Step("load_data")
    /\ UNCHANGED <<args, given, fs, written, raw_files, sample_num, peak_angles, sin2_theta,
                   structure, reflections, results, best_structure, stdout, figs,
                   size_calls>>

\* peak_angles, _ = detect_peaks(two_theta, intensity)
DetectPeaks ==
    /\ pc = "detect"
    /\ LET r == detect_peaks(two_theta, intensity)
       IN  IF r.err # ""
           THEN Raise(r.err) /\ UNCHANGED peak_angles
           ELSE /\ peak_angles' = r.peak_angles
                /\ pc' = "sort"
                /\ UNCHANGED err
    /\ Step("detect_peaks")
    /\ UNCHANGED <<args, given, fs, written, raw_files, sample_num, two_theta, intensity,
                   sin2_theta, structure, reflections, results, best_structure,
                   stdout, figs, size_calls>>

\* main, lines 146-151: np.sort, then sin^2 of half the angle
SortPeaks ==
    /\ pc = "sort"
    /\ peak_angles' = NpSort(peak_angles)
    /\ sin2_theta' = [i \in DOMAIN peak_angles |-> Sin2x4(NpSort(peak_angles)[i])]
    /\ structure' = Structures[1]
    /\ pc' = "fit"
    /\ Step("sort")
    /\ UNCHANGED <<args, given, fs, written, raw_files, sample_num, two_theta, intensity,
                   reflections, results, best_structure, stdout, figs, size_calls, err>>

\* [r[1] for r in reflections[:len(Q_theoretical)]]
MillerLabels(refl, Q) == [i \in 1..Min2(Len(refl), Len(Q)) |-> refl[i][2]]

\* One pass of the loop over structures, lines 153-171
FitStructure ==
    /\ pc = "fit"
    /\ LET t == get_allowed_reflections(structure)
           reg == perform_regression(sin2_theta, t.reflections)
           k == CHOOSE i \in DOMAIN Structures : Structures[i] = structure
       IN  IF t.err # ""
           THEN /\ Raise(t.err)
                /\ UNCHANGED <<reflections, results, stdout, structure>>
           ELSE IF reg.err # ""
           THEN /\ Raise(reg.err)
                /\ reflections' = t.reflections
                /\ UNCHANGED <<results, stdout, structure>>
           ELSE /\ reflections' = t.reflections
                /\ results' = DictSet(results, structure,
                                  [slope |-> reg.slope,
                                   intercept |-> reg.intercept,
                                   r_squared |-> reg.r_squared,
                                   lattice_constant |-> reg.a,
                                   Q_theoretical |-> reg.Q_theoretical,
                                   sin2_used |-> reg.sin2_used,
                                   miller_labels |-> MillerLabels(t.reflections, reg.Q_theoretical)])
                /\ stdout' = Append(stdout, [line |-> "structure", structure |-> structure,
                                             a |-> reg.a])
                /\ IF k < Len(Structures)
                   THEN structure' = Structures[k + 1] /\ UNCHANGED pc
                   ELSE pc' = "select" /\ UNCHANGED structure
                /\ UNCHANGED err
    /\ Step("fit")
    /\ UNCHANGED <<args, given, fs, written, raw_files, sample_num, two_theta, intensity,
                   peak_angles, sin2_theta, best_structure, figs, size_calls>>

\* main, lines 173-176
SelectBest ==
    /\ pc = "select"
    /\ best_structure' = MaxByRSquared(results)
    /\ stdout' = Append(stdout, [line |-> "best", structure |-> MaxByRSquared(results),
                                 a |-> DictGet(results, MaxByRSquared(results)).lattice_constant])
    /\ pc' = "plot_fit"
    /\ Step("select")
    /\ UNCHANGED <<args, given, fs, written, raw_files, sample_num, two_theta, intensity,
                   peak_angles, sin2_theta, structure, reflections, results, figs,
                   size_calls, err>>

\* main, lines 178-190: the title reads sample_num, which is bound only in the
\* branch of --clean that found a sample number
PlotLinearFit ==
    /\ pc = "plot_fit"
    /\ IF sample_num = <<>>
       THEN Raise("NameError") /\ UNCHANGED figs
       ELSE /\ figs' = figs \cup {[kind |-> "lin_reg", sample |-> sample_num]}
            /\ pc' = "plot_pattern"
            /\ UNCHANGED err
    /\ Step("plot_fit")
    /\ UNCHANGED <<args, given, fs, written, raw_files, sample_num, two_theta, intensity,
                   peak_angles, sin2_theta, structure, reflections, results,
                   best_structure, stdout, size_calls>>

\* main, lines 192-208
PlotPattern ==
    /\ pc = "plot_pattern"
    /\ figs' = figs \cup {[kind |-> "diff_pattern", sample |-> sample_num]}
    /\ pc' = IF SizeRequested THEN "size" ELSE "done"
    /\ Step("plot_pattern")
    /\ UNCHANGED <<args, given, fs, written, raw_files, sample_num, two_theta, intensity,
                   peak_angles, sin2_theta, structure, reflections, results,
                   best_structure, stdout, size_calls, err>>

\* os.path.splitext(base)[0]
RECURSIVE Stem(_)
Stem(base) ==
    IF base = <<>> \/ base[Len(base)] = "." THEN SubSeq(base, 1, Len(base) - 1)
    ELSE Stem(SubSeq(base, 1, Len(base) - 1))

\* powderxrd_patch.all_peaks: the sample the figure is named by
AllPeaksSample(filename) ==
    IF ReSearchSample(filename) # <<>> THEN ReSearchSample(filename)
    ELSE IF \E i \in DOMAIN filename : filename[i] = "." THEN Stem(filename)
    ELSE filename

\* main, lines 211-213: the size calculation, which is handed the file name only
SizeCalculation ==
    /\ pc = "size"
    /\ size_calls' = size_calls \o <<[fn |-> "backsub_multiplt", arg |-> <<>>],
                                     [fn |-> "all_peaks", arg |-> args.datafile]>>
    /\ figs' = figs \cup {[kind |-> "backsub_multiplt", sample |-> <<>>],
                          [kind |-> "allpeaks", sample |-> AllPeaksSample(args.datafile)]}
    /\ pc' = "done"
    /\ Step("size")
    /\ UNCHANGED <<args, given, fs, written, raw_files, sample_num, two_theta, intensity,
                   peak_angles, sin2_theta, structure, reflections, results,
                   best_structure, stdout, err>>

\* A direct call get_allowed_reflections(structure)
GetAllowedReflections ==
    /\ pc = "lookup"
    /\ Len(log) < MaxCalls
    /\ LET t == get_allowed_reflections(structure)
       IN  /\ reflections' = t.reflections
           /\ err' = t.err
           /\ pc' = IF t.err # "" THEN "error" ELSE "lookup"
    /\ Step("get_allowed_reflections")
    /\ UNCHANGED <<args, given, fs, written, raw_files, sample_num, two_theta, intensity,
                   peak_angles, sin2_theta, structure, results, best_structure,
                   stdout, figs, size_calls>>

-----------------------------------------------------------------------------
(* Initial states and specifications *)

NoArgs == [datafile |-> DataTxt, clean |-> FALSE, size |-> FALSE]

EmptyDir == [n \in {} |-> <<>>]

\* The state of a run at position `at`: the arguments, the directory, and the
\* locals bound so far (scan tt and x, peak angles pk, structure st)
Start(a, dir, at, tt, x, pk, st) ==
    /\ args = a
    /\ given = a.datafile
    /\ fs = dir
    /\ written = EmptyDir
    /\ raw_files = {}
    /\ sample_num = <<>>
    /\ two_theta = tt
    /\ intensity = x
    /\ peak_angles = pk
    /\ sin2_theta = <<>>
    /\ structure = st
    /\ reflections = <<>>
    /\ results = <<>>
    /\ best_structure = <<>>
    /\ stdout = <<>>
    /\ figs = {}
    /\ size_calls = <<>>
    /\ pc = at
    /\ err = ""
    /\ log = <<>>

\* A raw scan of broad peaks (at 360 and 540 degrees) that the cleaner keeps
WaveScan ==
    << <<240, 4>>, <<270, 2>>, <<300, 4>>, <<360, 6>>, <<420, 4>>, <<450, 2>>,
       <<480, 4>>, <<540, 6>>, <<600, 4>>, <<630, 2>>, <<660, 4>> >>

\* A short scan recorded from high to low angle, peaks at 120 and 60 degrees
ShortScan == << <<180, 2>>, <<120, 6>>, <<90, 2>>, <<60, 6>>, <<0, 2>> >>

FileNames == {Sample1Txt, Sample1bTxt, SampleATxt, FilteredSample1Xy, DataTxt}

FileContents == {ToCsv(WaveScan), ToCsv(ShortScan)}

\* The whole program: any arguments, any directory of well-formed files
Init ==
    \E present \in SUBSET FileNames :
      \E dir \in [present -> FileContents] :
        \E df \in FileNames, c \in BOOLEAN, sz \in BOOLEAN :
          Start([datafile |-> df, clean |-> c, size |-> sz], dir, "start",
                <<>>, <<>>, <<>>, <<>>)

Next ==
    \/ CleanAllRawData
    \/ CleanData
    \/ ResolveFiltered
    \/ LoadData
    \/ DetectPeaks
    \/ SortPeaks
    \/ FitStructure
    \/ SelectBest
    \/ PlotLinearFit
    \/ PlotPattern
    \/ SizeCalculation

Spec == Init /\ [][Next]_vars

\* The regression and the selection on every list of detected peak angles
AngleGrid == {0, 60, 90, 120, 180, 240, 270, 300}

RECURSIVE Ascending(_)
Ascending(S) ==
    IF S = {} THEN <<>>
    ELSE LET m == CHOOSE v \in S : \A w \in S : v <= w
         IN  <<m>> \o Ascending(S \ {m})

Reverse(s) == [i \in DOMAIN s |-> s[Len(s) + 1 - i]]

PeakLists ==
    UNION {{Ascending(S), Reverse(Ascending(S))} :
              S \in {T \in SUBSET AngleGrid : Cardinality(T) <= MaxPeaks}}

InitRegression ==
    \E pk \in PeakLists : Start(NoArgs, EmptyDir, "sort", <<>>, <<>>, pk, <<>>)

NextRegression == SortPeaks \/ FitStructure \/ SelectBest

SpecRegression == InitRegression /\ [][NextRegression]_vars

\* detect_peaks on every short scan
IntensityLevels == {0, 1, 3, 4000}

InitPeaks ==
    \/ \E x \in SeqsUpTo(IntensityLevels, MaxScanLen) \ {<<>>} :
           Start(NoArgs, EmptyDir, "detect", [i \in DOMAIN x |-> 10 + 5 * i], x, <<>>, <<>>)
    \/ Start(NoArgs, EmptyDir, "detect", <<>>, <<>>, <<>>, <<>>)

NextPeaks == DetectPeaks

SpecPeaks == InitPeaks /\ [][NextPeaks]_vars

\* load_data on every small file of numbers and text
Fields == {<<>>, <<12>>, <<30>>}

ColumnCounts == {1, 2, 3}

Rows == UNION {[1..c -> Fields] : c \in ColumnCounts}

InitLoad ==
    \/ Start(NoArgs, EmptyDir, "load", <<>>, <<>>, <<>>, <<>>)
    \/ \E table \in SeqsUpTo(Rows, MaxLoadRows) :
           Start(NoArgs, [n \in {DataTxt} |-> table], "load", <<>>, <<>>, <<>>, <<>>)

NextLoad == LoadData \/ DetectPeaks

SpecLoad == InitLoad /\ [][NextLoad]_vars

\* The data cleaner on every short raw two-column file
CleanLevels == {0, 1, 3}

FirstAngles == {1, 11}

RawScans ==
    UNION {{[i \in 1..n |-> <<a + 5 * (i - 1), x[i]>>] : x \in [1..n -> CleanLevels]} :
              n \in 1..MaxRows, a \in FirstAngles}

InitClean ==
    \E raw \in RawScans :
        Start([datafile |-> Sample1Txt, clean |-> TRUE, size |-> FALSE],
              [n \in {Sample1Txt} |-> ToCsv(raw)], "start", <<>>, <<>>, <<>>, <<>>)

NextClean == CleanAllRawData \/ CleanData

SpecClean == InitClean /\ [][NextClean]_vars

\* get_allowed_reflections on every short structure name
NameChars == {"f", "b", "c", "F", "C", "s"}

InitReflections ==
    \E s \in SeqsUpTo(NameChars, MaxNameLen) :
        Start(NoArgs, EmptyDir, "lookup", <<>>, <<>>, <<>>, s)

NextReflections == GetAllowedReflections

SpecReflections == InitReflections /\ [][NextReflections]_vars

-----------------------------------------------------------------------------
(* Claims *)

\* C1: perform_regression fails with an error whenever the fitted slope is
\* <= 0: no result is ever returned, and no lattice constant is ever printed,
\* that was computed from a non-positive slope.
C1_SlopeGuard ==
    /\ \A i \in DOMAIN results :
           IsNaN(results[i].value.slope) \/ results[i].value.slope.num > 0
    /\ \A i \in DOMAIN stdout :
           IsNaN(stdout[i].a.slope) \/ stdout[i].a.slope.num > 0

\* C2: a run whose input file loaded and whose two regressions succeeded does
\* not fail afterwards: it writes both figure files, named by the sample
\* number, and ends normally - with and without --clean, with and without a
\* sample number in the file name.
C2_RunCompletes ==
    (HasKey(results, fcc) /\ HasKey(results, bcc)) =>
        /\ pc # "error"
        /\ pc = "done" => \E num \in {sample_num, Unknown} :
               {[kind |-> "lin_reg", sample |-> num],
                [kind |-> "diff_pattern", sample |-> num]} \subseteq figs

\* The table of a hypothesis, as the claims give it
ClaimedTable(s) ==
    IF s = fcc
    THEN << <<3, "(111)">>, <<4, "(200)">>, <<8, "(220)">>, <<11, "(311)">>, <<12, "(222)">> >>
    ELSE << <<2, "(110)">>, <<4, "(200)">>, <<6, "(211)">>, <<8, "(220)">>, <<10, "(310)">> >>

\* C3: for each hypothesis fitted, with n the smaller of the number of its
\* reflections and the number of peaks, the result holds exactly the first n
\* Q values of the hypothesis, the labels of those n reflections, and the
\* sin^2(theta) of the n smallest peak angles, the i-th smallest angle paired
\* with the i-th smallest Q.
C3_TruncationLaw ==
    \A k \in DOMAIN results :
        LET r == results[k].value
            table == ClaimedTable(results[k].key)
            n == IF Len(peak_angles) < Len(table) THEN Len(peak_angles) ELSE Len(table)
        IN  /\ Len(r.Q_theoretical) = n
            /\ Len(r.sin2_used) = n
            /\ Len(r.miller_labels) = n
            /\ \A i \in 1..n :
                  /\ r.Q_theoretical[i] = table[i][1]
                  /\ r.miller_labels[i] = table[i][2]
                  /\ r.sin2_used[i] = Sin2x4(peak_angles[i])
            /\ \A i, j \in 1..n : i < j => r.Q_theoretical[i] < r.Q_theoretical[j]
            /\ \A i, j \in DOMAIN peak_angles : i < j => peak_angles[i] <= peak_angles[j]

\* C3 witness: two hypotheses fitted on six peaks, of which five are used
C3_Witness ==
    /\ Len(results) = 2
    /\ Len(peak_angles) = 6
    /\ Len(results[1].value.sin2_used) = 5

\* C4: once both hypotheses are fitted, one of them is reported as best: bcc
\* when its rSquared is strictly greater than that of fcc, fcc otherwise (also
\* on a tie), whatever the two values are; and the lattice constant printed as
\* final is that of the hypothesis selected.
C4_Selection ==
    (pc \in {"plot_fit", "plot_pattern", "size", "done"} \/ best_structure # <<>>) =>
        /\ HasKey(results, fcc) /\ HasKey(results, bcc)
        /\ LET f == DictGet(results, fcc).r_squared
               b == DictGet(results, bcc).r_squared
           IN  /\ b.num * f.den > f.num * b.den => best_structure = bcc
               /\ b.num * f.den <= f.num * b.den => best_structure = fcc
        /\ stdout[Len(stdout)].line = "best"
        /\ stdout[Len(stdout)].structure = best_structure
        /\ stdout[Len(stdout)].a = DictGet(results, best_structure).lattice_constant
        /\ Cardinality({i \in DOMAIN stdout : stdout[i].line = "best"}) = 1

\* C4 witness: the two fits are equally good, not null, and fcc is selected
C4_Witness ==
    /\ best_structure = fcc
    /\ LET f == DictGet(results, fcc).r_squared
           b == DictGet(results, bcc).r_squared
       IN  b.num * f.den = f.num * b.den /\ f.num > 0

\* C8: a lookup returns for fcc the five reflections (3,(111)), (4,(200)),
\* (8,(220)), (11,(311)), (12,(222)) and for bcc (2,(110)), (4,(200)),
\* (6,(211)), (8,(220)), (10,(310)), in that order, ascending in Q, every
\* time it is called; for any other name (letter case aside) it fails and
\* returns no table.
C8_ReflectionTable ==
    (pc \in {"lookup", "error"} /\ log # <<>>) =>
        IF Lower(structure) \in {fcc, bcc}
        THEN /\ pc = "lookup"
             /\ err = ""
             /\ reflections = ClaimedTable(Lower(structure))
             /\ Len(reflections) = 5
             /\ \A i, j \in DOMAIN reflections : i < j => reflections[i][1] < reflections[j][1]
        ELSE /\ pc = "error"
             /\ err = "ValueError"
             /\ reflections = <<>>

\* C8 witness: the fcc table looked up twice
C8_Witness ==
    /\ structure = fcc
    /\ Len(log) = 2
    /\ Len(reflections) = 5

\* The fields of a data file as numbers, where they are numbers
ColumnOf(table, c) == [i \in DOMAIN table |-> table[i][c][1]]

\* C5: loading fails, and nothing is analysed, when the file's column count
\* is not exactly 2 or a value is no number; a file of N >= 1 rows of exactly
\* 2 numeric columns loads as N (angle, intensity) pairs.
C5_LoadContract ==
    (log # <<>> /\ args.datafile \in DOMAIN fs) =>
        LET table == fs[args.datafile]
            twoColumns == \A i \in DOMAIN table : Len(table[i]) = 2
        IN  /\ (~twoColumns \/ ~AllNumeric(table)) =>
                  /\ pc = "error"
                  /\ two_theta = <<>> /\ intensity = <<>> /\ peak_angles = <<>>
            /\ (twoColumns /\ AllNumeric(table) /\ Len(table) >= 1) =>
                  /\ pc # "error"
                  /\ Len(two_theta) = Len(table)
                  /\ two_theta = ColumnOf(table, 1)
                  /\ intensity = ColumnOf(table, 2)

\* Whether the claim discards row k of the rows with angle above 10: its
\* intensity is further from the median of the five rows centred on it than
\* 3 * (their median absolute deviation + 1e-6). Where the five rows do not
\* exist no such deviation exists.
ClaimDiscards(rows, k) ==
    /\ k >= 3 /\ k + 2 <= Len(rows)
    /\ LET w == {rows[i][2] : i \in (k - 2)..(k + 2)}
           win == [i \in 1..5 |-> rows[k - 3 + i][2]]
           med == CHOOSE m \in w :
                      /\ Cardinality({i \in 1..5 : win[i] < m}) <= 2
                      /\ Cardinality({i \in 1..5 : win[i] > m}) <= 2
           dev == [i \in 1..5 |-> Abs(win[i] - med)]
           mad == CHOOSE m \in Range(dev) :
                      /\ Cardinality({i \in 1..5 : dev[i] < m}) <= 2
                      /\ Cardinality({i \in 1..5 : dev[i] > m}) <= 2
       IN  Abs(rows[k][2] - med) * 1000000 > 3 * (mad * 1000000 + IntensityUnit)

\* C6: the file clean_data writes holds, in their order and unaltered, exactly
\* the rows of the raw file that are not discarded, a row being discarded
\* when its angle is <= 10 or its intensity is too far from the rolling median.
C6_CleanerFilter ==
    \A target \in DOMAIN written :
        LET raw == ReadCsv(fs[written[target]])
            above == SelectSeq(raw, LAMBDA r : ~(r[1] <= 10))
            kept == {k \in DOMAIN above : ~ClaimDiscards(above, k)}
            out == fs[target]
        IN  /\ Len(out) = Cardinality(kept)
            /\ \A i \in DOMAIN out :
                   /\ Len(out[i]) = 2
                   /\ \E k \in kept :
                         /\ Cardinality({j \in kept : j < k}) = i - 1
                         /\ out[i] = <<<<above[k][1]>>, <<above[k][2]>>>>

\* C10: with --clean and a datafile named Sample<digits>, the file loaded is
\* filtered_sample<digits>.xy and was written in this run by the cleaner from
\* the datafile given.
C10_LoadsOwnCleanedFile ==
    (args.clean /\ ReSearchSample(given) # <<>> /\ pc \in {"detect", "sort", "fit",
         "select", "plot_fit", "plot_pattern", "size", "done"}) =>
        /\ args.datafile = FilteredFilename(ReSearchSample(given))
        /\ args.datafile \in DOMAIN written
        /\ written[args.datafile] = given
        /\ fs[args.datafile] = ToCsv(CleanRows(ReadCsv(fs[given])))

\* The samples from p towards one end of the trace (d = -1: left, 1: right),
\* up to the nearest sample higher than x[p], or to the end of the trace
Flank(x, p, d) ==
    {i \in DOMAIN x :
        /\ (i - p) * d >= 0
        /\ \A j \in DOMAIN x : ((j - p) * d >= 0 /\ (i - j) * d >= 0) => x[j] <= x[p]}

LowestOf(x, S) == CHOOSE v \in {x[i] : i \in S} : \A i \in S : v <= x[i]

\* The drop from x[p] to the higher of the lowest points of its two flanks
DropOf(x, p) == x[p] - Max2(LowestOf(x, Flank(x, p, 0 - 1)), LowestOf(x, Flank(x, p, 1)))

\* Height and prominence as the claim states them (height fraction 0.001,
\* prominence 1)
Passes(x, p) ==
    /\ \A i \in DOMAIN x : x[p] * 1000 >= x[i]
    /\ DropOf(x, p) >= IntensityUnit

\* The angles of the samples in P, in the order of the scan
AnglesOf(P) ==
    /\ Len(peak_angles) = Cardinality(P)
    /\ \A k \in DOMAIN peak_angles :
           \E p \in P : /\ Cardinality({q \in P : q < p}) = k - 1
                        /\ peak_angles[k] = two_theta[p]

\* Inner samples higher than both neighbours / not lower than either
StrictMaxima(x) == {p \in DOMAIN x : p > 1 /\ p < Len(x) /\ x[p - 1] < x[p] /\ x[p + 1] < x[p]}

WeakMaxima(x) == {p \in DOMAIN x : p > 1 /\ p < Len(x) /\ x[p - 1] <= x[p] /\ x[p + 1] <= x[p]}

\* The middle samples (rounded down) of the flat runs that rise from the
\* sample before them and fall to the sample after them
PlateauMaxima(x) ==
    {p \in DOMAIN x :
        \E l, r \in DOMAIN x :
            /\ 1 < l /\ l <= r /\ r < Len(x)
            /\ \A i \in l..r : x[i] = x[l]
            /\ x[l - 1] < x[l] /\ x[r + 1] < x[r]
            /\ p = (l + r) \div 2}

\* C7 as stated: detect_peaks returns, in scan order, exactly the samples
\* that are a local maximum among their immediate neighbours (read either
\* way: higher than both, or not lower than either) and pass the height and
\* prominence tests; a scan of fewer than 3 samples yields an empty result.
C7_PeaksAsStated ==
    log # <<>> =>
        /\ pc = "sort"
        /\ \/ AnglesOf({p \in StrictMaxima(intensity) : Passes(intensity, p)})
           \/ AnglesOf({p \in WeakMaxima(intensity) : Passes(intensity, p)})
        /\ Len(intensity) < 3 => peak_angles = <<>>

\* What C7 holds of every state after the call
C7_Result ==
    log # <<>> =>
        IF Len(intensity) = 0
        THEN pc = "error" /\ err = "ValueError"
        ELSE /\ pc = "sort"
             /\ AnglesOf({p \in PlateauMaxima(intensity) : Passes(intensity, p)})
             /\ \A i, j \in DOMAIN peak_angles : i < j => peak_angles[i] < peak_angles[j]
             /\ Len(intensity) < 3 => peak_angles = <<>>

\* C7, amended: for a scan that is not empty detect_peaks returns, in scan
\* order and without duplicates, the samples that pass the height and the
\* prominence tests among these: for each flat run of one or more equal
\* samples that is higher than the sample before it and the sample after it,
\* the middle sample of the run (rounded down). A scan of 1 or 2 samples
\* yields an empty result, an empty scan raises ValueError, and the scan is
\* not modified.
C7_PeakDetection ==
    /\ []C7_Result
    /\ [][two_theta' = two_theta /\ intensity' = intensity]_vars

\* C7 witness: a flat-topped peak reported once, at its first sample, beside a
\* peak rejected for its height
C7_Witness ==
    /\ pc = "sort"
    /\ intensity = <<0, 3, 0, 4000, 4000, 0>>
    /\ peak_angles = <<two_theta[4]>>

StepRank(s) ==
    CASE s = "clean_all_raw_data" -> 1
      [] s = "clean_data" -> 2
      [] s = "resolve" -> 3
      [] s = "load_data" -> 4
      [] s = "detect_peaks" -> 5
      [] s = "sort" -> 6
      [] s = "fit" -> 7
      [] s = "select" -> 8
      [] s = "plot_fit" -> 9
      [] s = "plot_pattern" -> 10
      [] s = "size" -> 11

Did(s) == \E i \in DOMAIN log : log[i] = s

\* C9: the cleaner runs only with --clean and before the scan is loaded; the
\* scan is loaded before peaks are detected; the peaks are sorted before any
\* regression; fcc, then bcc, are fitted before the selection; the selection
\* is printed before any figure is written; the size calculation runs only
\* with --size and after both figures; no step is taken twice or out of order.
C9_PipelineOrder ==
    /\ \A i, j \in DOMAIN log : i < j =>
           /\ StepRank(log[i]) <= StepRank(log[j])
           /\ StepRank(log[i]) = StepRank(log[j]) => log[i] \in {"clean_data", "fit"}
    /\ Cardinality({i \in DOMAIN log : log[i] = "fit"}) <= 2
    /\ DictKeys(results) \in {<<>>, <<fcc>>, <<fcc, bcc>>}
    /\ (Did("clean_all_raw_data") \/ Did("clean_data") \/ DOMAIN written # {}) => args.clean
    /\ Did("load_data") => (args.clean => (Did("resolve") /\ raw_files = {}))
    /\ Did("detect_peaks") => (Did("load_data") /\ Len(two_theta) >= 2)
    /\ Did("sort") => Did("detect_peaks")
    /\ Did("fit") =>
           /\ Did("sort")
           /\ \A i, j \in DOMAIN peak_angles : i < j => peak_angles[i] <= peak_angles[j]
    /\ Did("select") => DictKeys(results) = <<fcc, bcc>>
    /\ figs # {} =>
           /\ Did("select")
           /\ \E i \in DOMAIN stdout : stdout[i].line = "best"
    /\ (Did("size") \/ size_calls # <<>>) =>
           /\ args.size
           /\ \E num \in {sample_num} :
                  {[kind |-> "lin_reg", sample |-> num],
                   [kind |-> "diff_pattern", sample |-> num]} \subseteq figs

\* C9 witness: a run with --clean and --size that went through every step
C9_Witness ==
    /\ pc = "done"
    /\ args.clean /\ args.size
    /\ Len(size_calls) = 2
    /\ Did("clean_data")

====
